---- MODULE Spec2Model ----
(***************************************************************************)
(* A model of the go-errors library (agilira/go-errors): the structured    *)
(* Error value, its constructors and builder mutators, the chain helpers   *)
(* (Unwrap, RootCause, HasCode, Is, As) and the standard library's         *)
(* errors.Unwrap / errors.Is / errors.As as they act on such chains, the   *)
(* two CaptureStacktrace variants, Stacktrace.String, Error() and          *)
(* MarshalJSON.                                                            *)
(*                                                                         *)
(* Values of Go's `error` interface are addresses into `heap`; address 0   *)
(* is the nil interface.  A string that the code inspects rune by rune     *)
(* (an ErrorCode) is a sequence of one-rune strings.                        *)
(***************************************************************************)
EXTENDS Integers, Sequences, FiniteSets, TLC

VARIABLES
    heap,   \* the allocated error values, by address 1..Len(heap)
    ctxs,   \* the allocated map[string]interface{} values, by address
    clock,  \* the reading time.Now() returns next
    last,   \* the last call made: its name, arguments and result
    inp,    \* the inputs of the run, drawn once
    procs   \* the calls in progress, one per goroutine: its position and
            \* its locals

vars == <<heap, ctxs, clock, last, inp, procs>>

(***************************************************************************)
(* Bounds of the model.                                                    *)
(***************************************************************************)
MaxErrs == 3        \* error values allocated in one run
MaxCodeLen == 2     \* runes in an input ErrorCode
CallDepth == 5      \* frames on the goroutine's stack inside runtime.Callers
MaxSkip == 2        \* the skip argument of CaptureStacktrace
MaxStackDepth == 70 \* the deepest goroutine stack CaptureStacktrace reads
MaxFrames == 2      \* program counters in a Stacktrace the caller writes

(***************************************************************************)
(* Values.                                                                 *)
(***************************************************************************)
NilErr == 0         \* the nil error interface, a nil map, a nil pointer

\* "\f" (form feed) stands for the Unicode white space validateErrorCode
\* does not list; "A" for every other rune.
Runes == {" ", "\t", "\n", "\r", "\f", "A"}

CodeInputs == UNION {[1..n -> Runes] : n \in 0..MaxCodeLen}

DefaultErrorCode == <<"U","N","K","N","O","W","N","_","E","R","R","O","R">>

SeverityCritical == "critical"
SeverityError == "error"
SeverityWarning == "warning"
SeverityInfo == "info"

\* Stacktrace: a nil *Stacktrace, or one holding Frames.
NilStack == [nil |-> TRUE]

\* The zero value of the Error struct: what a composite literal leaves in
\* the fields it does not name.
ZeroError ==
    [kind |-> "Error", Code |-> <<>>, Message |-> "", Field |-> "",
     Value |-> "", Context |-> NilErr, Timestamp |-> 0, Cause |-> NilErr,
     Severity |-> "", Stack |-> NilStack, UserMsg |-> "",
     Retryable |-> FALSE]

Addrs == DOMAIN heap
IsError(a) == a \in Addrs /\ heap[a].kind = "Error"
ErrorAddrs == {a \in Addrs : heap[a].kind = "Error"}

(***************************************************************************)
(* validateErrorCode: false for the empty string and for a string whose    *)
(* runes are all among ' ', '\t', '\n', '\r'.                              *)
(***************************************************************************)
validateErrorCode(code) ==
    IF Len(code) = 0
    THEN FALSE
    ELSE \E i \in 1..Len(code) :
            code[i] # " " /\ code[i] # "\t" /\ code[i] # "\n" /\ code[i] # "\r"

(***************************************************************************)
(* runtime.Callers(skip, pcs) on a stack of `depth` frames, frame 1 being  *)
(* runtime.Callers itself: the frames after the first `skip`, at most      *)
(* `size` of them.  A frame token is the frame's position from the top.    *)
(***************************************************************************)
Min(a, b) == IF a < b THEN a ELSE b

Callers(skip, size, depth) ==
    [i \in 1..Min(size, IF depth > skip THEN depth - skip ELSE 0) |-> skip + i]

maxDepth == 32           \* stacktrace.go: the one buffer's size
initialDepth == 16       \* the adaptive variant: the first buffer's size
maxDepthAdaptive == 64   \* the adaptive variant: the second buffer's size

\* A slip CaptureStacktrace could have: its own frame left in the capture.
CaptureStacktraceSkipOne(skip, depth) ==
    [Frames |-> Callers(skip + 1, maxDepth, depth)]

\* CaptureStacktrace of stacktrace.go: one capture into a 32-frame buffer.
CaptureStacktrace(skip, depth) ==
    [Frames |-> Callers(skip + 2, maxDepth, depth)]

\* A slip the adaptive variant could have: a first buffer that comes back
\* full is taken as the whole capture.
CaptureStacktraceNeverGrows(skip, depth) ==
    [Frames |-> Callers(skip + 2, initialDepth, depth)]

\* CaptureStacktrace of the adaptive variant: a capture into a 16-frame
\* buffer and, when that one came back full, a second capture into a
\* 64-frame buffer; the frames captured are copied into the result.
CaptureStacktraceAdaptive(skip, depth) ==
    LET pcs == Callers(skip + 2, initialDepth, depth)
    IN  IF Len(pcs) = initialDepth
        THEN [Frames |-> Callers(skip + 2, maxDepthAdaptive, depth)]
        ELSE [Frames |-> pcs]

(***************************************************************************)
(* Stacktrace.String.  Text is a sequence of one-character strings.        *)
(* runtime.CallersFrames resolves the program counters: Frames.Next skips  *)
(* a counter that belongs to no function, and returns the zero Frame when  *)
(* it has none to give.  Counter 0 stands for the counters that cannot be  *)
(* resolved; what runtime.Callers returns always can.                      *)
(***************************************************************************)
Digits == <<"0", "1", "2", "3", "4", "5", "6", "7", "8", "9">>

\* strconv.Itoa of a number that is not negative.
RECURSIVE Itoa(_)
Itoa(n) ==
    IF n < 10 THEN <<Digits[n + 1]>>
    ELSE Itoa(n \div 10) \o <<Digits[(n % 10) + 1]>>

funcInfoValid(pc) == pc # 0

ZeroFrame == [Function |-> <<>>, File |-> <<>>, Line |-> 0]

\* The runtime.Frame of a counter that resolves: function f<pc>, file
\* f<pc>.go, line 9 + pc.
FrameOf(pc) ==
    [Function |-> <<"f">> \o Itoa(pc),
     File |-> <<"f">> \o Itoa(pc) \o <<".", "g", "o">>,
     Line |-> 9 + pc]

\* The frames Frames.Next hands out, in order.
CallersFrames(pcs) ==
    LET valid == SelectSeq(pcs, funcInfoValid)
    IN  [i \in 1..Len(valid) |-> FrameOf(valid[i])]

\* What one turn of String's loop writes.
Block(frame) ==
    frame.Function \o <<"\n", "\t">> \o frame.File \o <<":">>
        \o Itoa(frame.Line) \o <<"\n">>

RECURSIVE Blocks(_)
Blocks(frames) ==
    IF frames = <<>> THEN <<>>
    ELSE Block(Head(frames)) \o Blocks(Tail(frames))

\* A slip String could have: the nil receiver dereferenced.
StringNoNilCheck(s) ==
    IF s = NilStack THEN [ret |-> <<>>, panic |-> TRUE]
    ELSE IF Len(s.Frames) = 0 THEN [ret |-> <<>>, panic |-> FALSE]
    ELSE LET frames == CallersFrames(s.Frames)
         IN  [ret |-> IF frames = <<>> THEN Block(ZeroFrame)
                      ELSE Blocks(frames),
              panic |-> FALSE]

\* The loop writes a block before it looks at `more`: with no frame to
\* give, Next returns the zero Frame and one block is written for it.
String(s) ==
    IF s = NilStack \/ Len(s.Frames) = 0 THEN [ret |-> <<>>, panic |-> FALSE]
    ELSE LET frames == CallersFrames(s.Frames)
         IN  [ret |-> IF frames = <<>> THEN Block(ZeroFrame)
                      ELSE Blocks(frames),
              panic |-> FALSE]

(***************************************************************************)
(* Constructors.  Each allocates a fresh Error; `depth` is the depth of    *)
(* the goroutine's stack when Wrap's CaptureStacktrace reads it.           *)
(***************************************************************************)
Alloc(obj) == heap' = Append(heap, obj)
NewAddr == Len(heap) + 1
NewCtx == Len(ctxs) + 1
EmptyMap == [k \in {} |-> 0]

\* A slip New could have: the Context map left nil.
NewNilContext(code, message) ==
    /\ Len(heap) < MaxErrs
    /\ Alloc([ZeroError EXCEPT !.Code = code, !.Message = message,
                                !.Timestamp = clock, !.Severity = "error"])
    /\ clock' = clock + 1
    /\ last' = [op |-> "New", code |-> code, message |-> message,
                ret |-> NewAddr, panic |-> FALSE]
    /\ UNCHANGED <<ctxs, inp, procs>>

New(code, message) ==
    /\ Len(heap) < MaxErrs
    /\ Alloc([ZeroError EXCEPT !.Code = code, !.Message = message,
                                !.Timestamp = clock, !.Severity = "error",
                                !.Context = NewCtx])
    /\ ctxs' = Append(ctxs, EmptyMap)
    /\ clock' = clock + 1
    /\ last' = [op |-> "New", code |-> code, message |-> message,
                ret |-> NewAddr, panic |-> FALSE]
    /\ UNCHANGED <<inp, procs>>

NewWithField(code, message, field, value) ==
    /\ Len(heap) < MaxErrs
    /\ Alloc([ZeroError EXCEPT !.Code = code, !.Message = message,
                                !.Field = field, !.Value = value,
                                !.Timestamp = clock, !.Severity = "error",
                                !.Context = NewCtx])
    /\ ctxs' = Append(ctxs, EmptyMap)
    /\ clock' = clock + 1
    /\ last' = [op |-> "NewWithField", code |-> code, message |-> message,
                ret |-> NewAddr, panic |-> FALSE]
    /\ UNCHANGED <<inp, procs>>

\* A slip NewWithContext could have: a copy of the caller's map stored.
NewWithContextCopy(code, message, context) ==
    /\ Len(heap) < MaxErrs
    /\ Alloc([ZeroError EXCEPT !.Code = code, !.Message = message,
                                !.Timestamp = clock, !.Severity = "error",
                                !.Context = IF context = NilErr THEN NilErr
                                            ELSE NewCtx])
    /\ ctxs' = IF context = NilErr THEN ctxs
               ELSE Append(ctxs, ctxs[context])
    /\ clock' = clock + 1
    /\ last' = [op |-> "NewWithContext", code |-> code, message |-> message,
                context |-> context, ret |-> NewAddr, panic |-> FALSE]
    /\ UNCHANGED <<inp, procs>>

\* `context` is the caller's map: nil, or the address of a map in ctxs.
NewWithContext(code, message, context) ==
    /\ Len(heap) < MaxErrs
    /\ Alloc([ZeroError EXCEPT !.Code = code, !.Message = message,
                                !.Timestamp = clock, !.Severity = "error",
                                !.Context = context])
    /\ clock' = clock + 1
    /\ last' = [op |-> "NewWithContext", code |-> code, message |-> message,
                context |-> context, ret |-> NewAddr, panic |-> FALSE]
    /\ UNCHANGED <<ctxs, inp, procs>>

\* A slip Wrap could have: the cause not stored.
WrapDropsCause(err, code, message, depth) ==
    /\ Len(heap) < MaxErrs
    /\ LET c == IF ~validateErrorCode(code) THEN DefaultErrorCode ELSE code
       IN  Alloc([ZeroError EXCEPT !.Code = c, !.Message = message,
                                   !.Timestamp = clock,
                                   !.Severity = SeverityError,
                                   !.Context = NewCtx,
                                   !.Stack = CaptureStacktrace(1, depth)])
    /\ ctxs' = Append(ctxs, EmptyMap)
    /\ clock' = clock + 1
    /\ last' = [op |-> "Wrap", code |-> code, message |-> message,
                err |-> err, ret |-> NewAddr, panic |-> FALSE]
    /\ UNCHANGED <<inp, procs>>

\* A slip Wrap could have: the new value made its own cause.
WrapSelfCause(err, code, message, depth) ==
    /\ Len(heap) < MaxErrs
    /\ LET c == IF ~validateErrorCode(code) THEN DefaultErrorCode ELSE code
       IN  Alloc([ZeroError EXCEPT !.Code = c, !.Message = message,
                                   !.Timestamp = clock,
                                   !.Severity = SeverityError,
                                   !.Cause = NewAddr, !.Context = NewCtx,
                                   !.Stack = CaptureStacktrace(1, depth)])
    /\ ctxs' = Append(ctxs, EmptyMap)
    /\ clock' = clock + 1
    /\ last' = [op |-> "Wrap", code |-> code, message |-> message,
                err |-> err, ret |-> NewAddr, panic |-> FALSE]
    /\ UNCHANGED <<inp, procs>>

\* A slip Wrap could have: a nil error wrapped into nil.
WrapNilGivesNil(err, code, message, depth) ==
    /\ Len(heap) < MaxErrs
    /\ LET c == IF ~validateErrorCode(code) THEN DefaultErrorCode ELSE code
       IN  IF err = NilErr
           THEN heap' = heap
           ELSE Alloc([ZeroError EXCEPT !.Code = c, !.Message = message,
                                        !.Timestamp = clock,
                                        !.Severity = SeverityError,
                                        !.Cause = err, !.Context = NewCtx,
                                        !.Stack = CaptureStacktrace(1, depth)])
    /\ ctxs' = IF err = NilErr THEN ctxs ELSE Append(ctxs, EmptyMap)
    /\ clock' = clock + 1
    /\ last' = [op |-> "Wrap", code |-> code, message |-> message,
                err |-> err, ret |-> IF err = NilErr THEN NilErr ELSE NewAddr,
                panic |-> FALSE]
    /\ UNCHANGED <<inp, procs>>

\* A slip Wrap could have: the code stored as given, as New stores it.
WrapStoresCode(err, code, message, depth) ==
    /\ Len(heap) < MaxErrs
    /\ Alloc([ZeroError EXCEPT !.Code = code, !.Message = message,
                               !.Timestamp = clock,
                               !.Severity = SeverityError,
                               !.Cause = err, !.Context = NewCtx,
                               !.Stack = CaptureStacktrace(1, depth)])
    /\ ctxs' = Append(ctxs, EmptyMap)
    /\ clock' = clock + 1
    /\ last' = [op |-> "Wrap", code |-> code, message |-> message,
                err |-> err, ret |-> NewAddr, panic |-> FALSE]
    /\ UNCHANGED <<inp, procs>>

Wrap(err, code, message, depth) ==
    /\ Len(heap) < MaxErrs
    /\ LET c == IF ~validateErrorCode(code) THEN DefaultErrorCode ELSE code
       IN  Alloc([ZeroError EXCEPT !.Code = c, !.Message = message,
                                   !.Timestamp = clock,
                                   !.Severity = SeverityError,
                                   !.Cause = err, !.Context = NewCtx,
                                   !.Stack = CaptureStacktrace(1, depth)])
    /\ ctxs' = Append(ctxs, EmptyMap)
    /\ clock' = clock + 1
    /\ last' = [op |-> "Wrap", code |-> code, message |-> message,
                err |-> err, ret |-> NewAddr, panic |-> FALSE]
    /\ UNCHANGED <<inp, procs>>

\* The caller's own map literal, for NewWithContext to be handed.
Keys == {"k", "k2"}
Vals == {"v1", "v2"}
MakeMap(m) ==
    /\ Len(ctxs) < MaxErrs
    /\ ctxs' = Append(ctxs, m)
    /\ last' = [op |-> "MakeMap", ret |-> NewCtx, panic |-> FALSE]
    /\ UNCHANGED <<heap, clock, inp, procs>>

(***************************************************************************)
(* Builder mutators (usermsg.go).  Each writes one field of the receiver   *)
(* in place and returns the receiver.                                      *)
(***************************************************************************)
\* A slip WithUserMessage could have: the text written over Message too.
WithUserMessageOverMessage(e, msg) ==
    /\ heap' = [heap EXCEPT ![e].UserMsg = msg, ![e].Message = msg]
    /\ last' = [op |-> "WithUserMessage", recv |-> e, msg |-> msg,
                ret |-> e, panic |-> FALSE]
    /\ UNCHANGED <<ctxs, clock, inp, procs>>

WithUserMessage(e, msg) ==
    /\ heap' = [heap EXCEPT ![e].UserMsg = msg]
    /\ last' = [op |-> "WithUserMessage", recv |-> e, msg |-> msg,
                ret |-> e, panic |-> FALSE]
    /\ UNCHANGED <<ctxs, clock, inp, procs>>

MapSet(m, key, value) ==
    [k \in DOMAIN m \cup {key} |-> IF k = key THEN value ELSE m[k]]

\* A slip WithContext could have: a fresh map holding only the new entry
\* put in place of the map the receiver had.
WithContextFreshMap(e, key, value) ==
    /\ IF heap[e].Context = NilErr
       THEN /\ heap' = [heap EXCEPT ![e].Context = NewCtx]
            /\ ctxs' = Append(ctxs, MapSet(EmptyMap, key, value))
       ELSE /\ heap' = heap
            /\ ctxs' = [ctxs EXCEPT ![heap[e].Context] =
                                      MapSet(EmptyMap, key, value)]
    /\ last' = [op |-> "WithContext", recv |-> e, key |-> key,
                value |-> value, ret |-> e, panic |-> FALSE]
    /\ UNCHANGED <<clock, inp, procs>>

WithContext(e, key, value) ==
    /\ IF heap[e].Context = NilErr
       THEN /\ heap' = [heap EXCEPT ![e].Context = NewCtx]
            /\ ctxs' = Append(ctxs, MapSet(EmptyMap, key, value))
       ELSE /\ heap' = heap
            /\ ctxs' = [ctxs EXCEPT ![heap[e].Context] =
                                      MapSet(ctxs[heap[e].Context], key, value)]
    /\ last' = [op |-> "WithContext", recv |-> e, key |-> key,
                value |-> value, ret |-> e, panic |-> FALSE]
    /\ UNCHANGED <<clock, inp, procs>>

AsRetryable(e) ==
    /\ heap' = [heap EXCEPT ![e].Retryable = TRUE]
    /\ last' = [op |-> "AsRetryable", recv |-> e, ret |-> e, panic |-> FALSE]
    /\ UNCHANGED <<ctxs, clock, inp, procs>>

\* A slip WithSeverity could have: the change made to a copy, and the copy
\* returned.
WithSeverityOnCopy(e, severity) ==
    /\ heap' = Append(heap, [heap[e] EXCEPT !.Severity = severity])
    /\ last' = [op |-> "WithSeverity", recv |-> e, severity |-> severity,
                ret |-> NewAddr, panic |-> FALSE]
    /\ UNCHANGED <<ctxs, clock, inp, procs>>

WithSeverity(e, severity) ==
    /\ heap' = [heap EXCEPT ![e].Severity = severity]
    /\ last' = [op |-> "WithSeverity", recv |-> e, severity |-> severity,
                ret |-> e, panic |-> FALSE]
    /\ UNCHANGED <<ctxs, clock, inp, procs>>

WithCriticalSeverity(e) == WithSeverity(e, SeverityCritical)

WithWarningSeverity(e) == WithSeverity(e, SeverityWarning)

WithInfoSeverity(e) == WithSeverity(e, SeverityInfo)

(***************************************************************************)
(* Accessors (usermsg.go).                                                 *)
(***************************************************************************)
\* A slip UserMessage could have: no fallback to Message.
UserMessageNoFallback(e) == heap[e].UserMsg

UserMessage(e) ==
    IF heap[e].UserMsg # "" THEN heap[e].UserMsg ELSE heap[e].Message

ErrorCode(e) == heap[e].Code

IsRetryable(e) == heap[e].Retryable

\* The text of a string the model does not look into: empty, or the
\* string as one unit.
Text(str) == IF str = "" THEN <<>> ELSE <<str>>

\* A slip Error could have: the user message shown when there is one.
ErrorShowsUserMessage(e) ==
    <<"[">> \o heap[e].Code \o <<"]", ":", " ">> \o Text(UserMessage(e))

\* Error(): fmt.Sprintf("[%s]: %s", e.Code, e.Message).
Error(e) ==
    <<"[">> \o heap[e].Code \o <<"]", ":", " ">> \o Text(heap[e].Message)

\* A call of an accessor or of a helper that only reads: the result is
\* recorded, nothing else changes.
Returns(call) ==
    /\ last' = call
    /\ UNCHANGED <<heap, ctxs, clock, inp, procs>>

CallUserMessage(e) ==
    Returns([op |-> "UserMessage", recv |-> e, ret |-> UserMessage(e),
             panic |-> FALSE])

CallErrorCode(e) ==
    Returns([op |-> "ErrorCode", recv |-> e, ret |-> ErrorCode(e),
             panic |-> FALSE])

CallIsRetryable(e) ==
    Returns([op |-> "IsRetryable", recv |-> e, ret |-> IsRetryable(e),
             panic |-> FALSE])

CallError(e) ==
    Returns([op |-> "Error", recv |-> e, ret |-> Error(e), panic |-> FALSE])

(***************************************************************************)
(* Errors of other types, made by the caller: errors.New gives a link      *)
(* with no Unwrap method, fmt.Errorf with %w a link whose Unwrap returns   *)
(* the wrapped error.  Neither type has an Is or an As method.             *)
(***************************************************************************)
ErrorsNew(msg) ==
    /\ Len(heap) < MaxErrs
    /\ Alloc([kind |-> "Foreign", typ |-> "*errors.errorString",
              msg |-> msg, err |-> NilErr])
    /\ last' = [op |-> "errors.New", ret |-> NewAddr, panic |-> FALSE]
    /\ UNCHANGED <<ctxs, clock, inp, procs>>

FmtErrorfW(err) ==
    /\ Len(heap) < MaxErrs
    /\ err # NilErr
    /\ Alloc([kind |-> "Foreign", typ |-> "*fmt.wrapError",
              msg |-> "w", err |-> err])
    /\ last' = [op |-> "fmt.Errorf", ret |-> NewAddr, panic |-> FALSE]
    /\ UNCHANGED <<ctxs, clock, inp, procs>>

\* The composite literal &Error{Code: code}: every other field zero.
ErrorLiteral(code) ==
    /\ Len(heap) < MaxErrs
    /\ Alloc([ZeroError EXCEPT !.Code = code])
    /\ last' = [op |-> "&Error{}", code |-> code, ret |-> NewAddr,
                panic |-> FALSE]
    /\ UNCHANGED <<ctxs, clock, inp, procs>>

\* A nil *Error held in a non-nil error interface.
NilErrorPtr == -1

TypeOf(a) == IF heap[a].kind = "Error" THEN "*Error" ELSE heap[a].typ

(***************************************************************************)
(* Chain helpers (helpers.go) and the standard library they call.          *)
(***************************************************************************)
Unwrap(e) == heap[e].Cause

\* errors.Unwrap: the result of err's Unwrap() error method, nil when err
\* is nil or its type has none.
ErrorsUnwrap(err) ==
    IF err = NilErr THEN NilErr
    ELSE IF heap[err].kind = "Error" THEN Unwrap(err)
    ELSE IF heap[err].typ = "*fmt.wrapError" THEN heap[err].err
    ELSE NilErr

\* A slip RootCause could have: one unwrap step instead of the loop.
RootCauseOneStep(err) ==
    LET unwrapped == ErrorsUnwrap(err)
    IN  IF unwrapped = NilErr THEN err ELSE unwrapped

RECURSIVE RootCause(_)
RootCause(err) ==
    LET unwrapped == ErrorsUnwrap(err)
    IN  IF unwrapped = NilErr THEN err ELSE RootCause(unwrapped)

\* A slip HasCode could have: the walk ends at the first link that is not
\* an *Error.
RECURSIVE HasCodeStopAtForeign(_, _)
HasCodeStopAtForeign(err, code) ==
    IF err = NilErr THEN FALSE
    ELSE IF heap[err].kind # "Error" THEN FALSE
    ELSE IF heap[err].Code = code THEN TRUE
    ELSE HasCodeStopAtForeign(ErrorsUnwrap(err), code)

RECURSIVE HasCode(_, _)
HasCode(err, code) ==
    IF err = NilErr THEN FALSE
    ELSE IF heap[err].kind = "Error" /\ heap[err].Code = code THEN TRUE
    ELSE HasCode(ErrorsUnwrap(err), code)

\* A method's or function's outcome: the value returned, or a panic.
Ok(v) == [ret |-> v, panic |-> FALSE]
Panic == [ret |-> FALSE, panic |-> TRUE]

\* A slip Is could have: the message compared along with the code.
IsCodeAndMessage(e, target) ==
    IF target = NilErr THEN Ok(FALSE)
    ELSE IF target = NilErrorPtr THEN Panic
    ELSE IF heap[target].kind = "Error"
    THEN Ok(heap[e].Code = heap[target].Code
            /\ heap[e].Message = heap[target].Message)
    ELSE Ok(FALSE)

\* A slip Is could have: the two values compared, not their codes.
IsByIdentity(e, target) ==
    IF target = NilErr THEN Ok(FALSE)
    ELSE IF target = NilErrorPtr THEN Panic
    ELSE Ok(e = target)

\* A slip Is could have: the code looked for along the receiver's chain,
\* as HasCode does.
IsAlongChain(e, target) ==
    IF target = NilErr THEN Ok(FALSE)
    ELSE IF target = NilErrorPtr THEN Panic
    ELSE IF heap[target].kind = "Error"
    THEN Ok(HasCode(e, heap[target].Code))
    ELSE Ok(FALSE)

\* (*Error).Is.  A target that is a nil *Error passes `target == nil` and
\* the type assertion, and te.Code dereferences it.
Is(e, target) ==
    IF target = NilErr THEN Ok(FALSE)
    ELSE IF target = NilErrorPtr \/ heap[target].kind = "Error"
    THEN IF target = NilErrorPtr
         THEN Panic
         ELSE Ok(heap[e].Code = heap[target].Code)
    ELSE Ok(FALSE)

\* errors.As targets: untyped nil, or a non-nil pointer to a variable of
\* type elem.  "*fmt.wrapError" stands for a foreign error type that has
\* Unwrap, "*os.PathError" for an error type no link has, "int" for a type
\* that is neither an interface nor an error.
TargetElems == {"error", "*Error", "*fmt.wrapError", "*os.PathError", "int"}
Targets == {[kind |-> "nil"]} \cup [kind : {"ptr"}, elem : TargetElems]

AssignableTo(typ, elem) == elem = "error" \/ typ = elem

AsOk(found, a) == [ret |-> found, slot |-> a, panic |-> FALSE]
AsPanic == [ret |-> FALSE, slot |-> NilErr, panic |-> TRUE]

RECURSIVE ErrorsAs(_, _), as(_, _), As(_, _)

\* A slip As could have: the receiver itself is tried before its Cause.
AsFromReceiver(e, target) ==
    IF target.kind = "ptr" /\ AssignableTo("*Error", target.elem)
    THEN AsOk(TRUE, e)
    ELSE ErrorsAs(heap[e].Cause, target)

\* (*Error).As: the search is handed the receiver's Cause.
As(e, target) == ErrorsAs(heap[e].Cause, target)

\* errors.As (Go 1.20 and later: a nil err returns before the target is
\* validated).
ErrorsAs(err, target) ==
    IF err = NilErr THEN AsOk(FALSE, NilErr)
    ELSE IF target.kind = "nil" THEN AsPanic
    ELSE IF target.elem = "int" THEN AsPanic
    ELSE as(err, target)

as(err, target) ==
    IF AssignableTo(TypeOf(err), target.elem) THEN AsOk(TRUE, err)
    ELSE IF heap[err].kind = "Error" /\ As(err, target).ret
    THEN As(err, target)
    ELSE LET next == ErrorsUnwrap(err)
         IN  IF next = NilErr THEN AsOk(FALSE, NilErr) ELSE as(next, target)

\* errors.Is; pointers are comparable.
RECURSIVE is(_, _)
is(err, target) ==
    IF err = target THEN Ok(TRUE)
    ELSE IF heap[err].kind = "Error" /\ Is(err, target).panic THEN Panic
    ELSE IF heap[err].kind = "Error" /\ Is(err, target).ret THEN Ok(TRUE)
    ELSE LET next == ErrorsUnwrap(err)
         IN  IF next = NilErr THEN Ok(FALSE) ELSE is(next, target)

ErrorsIs(err, target) ==
    IF err = NilErr \/ target = NilErr THEN Ok(err = target)
    ELSE is(err, target)

CallUnwrap(e) ==
    Returns([op |-> "Unwrap", recv |-> e, ret |-> Unwrap(e), panic |-> FALSE])

CallRootCause(err) ==
    Returns([op |-> "RootCause", err |-> err, ret |-> RootCause(err),
             panic |-> FALSE])

CallHasCode(err, code) ==
    Returns([op |-> "HasCode", err |-> err, code |-> code,
             ret |-> HasCode(err, code), panic |-> FALSE])

CallIs(e, target) ==
    Returns([op |-> "Is", recv |-> e, target |-> target,
             ret |-> Is(e, target).ret, panic |-> Is(e, target).panic])

CallAs(e, target) ==
    Returns([op |-> "As", recv |-> e, target |-> target,
             ret |-> As(e, target).ret, slot |-> As(e, target).slot,
             panic |-> As(e, target).panic])

CallErrorsIs(err, target) ==
    Returns([op |-> "errors.Is", err |-> err, target |-> target,
             ret |-> ErrorsIs(err, target).ret,
             panic |-> ErrorsIs(err, target).panic])

CallErrorsAs(err, target) ==
    Returns([op |-> "errors.As", err |-> err, target |-> target,
             ret |-> ErrorsAs(err, target).ret,
             slot |-> ErrorsAs(err, target).slot,
             panic |-> ErrorsAs(err, target).panic])

(***************************************************************************)
(* SpecCode: the constructors applied to one input code, drawn from every  *)
(* rune string of up to MaxCodeLen runes.                                  *)
(***************************************************************************)
InitCode ==
    /\ procs = <<>>
    /\ heap = <<>>
    /\ ctxs = <<>>
    /\ clock = 1
    /\ last = [op |-> "init", panic |-> FALSE]
    /\ inp \in [code : CodeInputs, message : {"m"}]

NextCode ==
    \/ New(inp.code, inp.message)
    \/ NewWithField(inp.code, inp.message, "f", "v")
    \/ \E c \in {NilErr} \cup DOMAIN ctxs :
            NewWithContext(inp.code, inp.message, c)
    \/ \E e \in {NilErr} \cup Addrs :
            Wrap(e, inp.code, inp.message, CallDepth)

SpecCode == InitCode /\ [][NextCode]_vars

Constructors == {"New", "NewWithField", "NewWithContext", "Wrap"}
Whitespace == {" ", "\t", "\n", "\r"}
OnlyWhitespace(code) == \A i \in 1..Len(code) : code[i] \in Whitespace

\* C1: every constructor returns a value whose code is UNKNOWN_ERROR when
\* the input code is empty or made only of space, tab, newline, carriage
\* return, and the input code unchanged otherwise; none fails.
C1_CodeNormalised ==
    last.op \in Constructors =>
        /\ ~last.panic
        /\ heap[last.ret].Code =
              IF OnlyWhitespace(last.code) THEN DefaultErrorCode ELSE last.code

(***************************************************************************)
(* Spec: the life of one Error value.  A caller may first make an error of *)
(* its own and a map; one constructor makes the value from the run's code  *)
(* and message; builder calls and accessors follow in any order.           *)
(***************************************************************************)
BuildCodes == {<<>>, <<" ", "\t">>, <<"A">>}
Messages == {"", "m"}
UserMsgs == {"", "u"}
Severities == {SeverityError, "fatal"}

Init ==
    /\ procs = <<>>
    /\ heap = <<>>
    /\ ctxs = <<>>
    /\ clock = 1
    /\ last = [op |-> "init", panic |-> FALSE]
    /\ inp \in [code : BuildCodes, message : Messages]

NoneBuilt == ErrorAddrs = {}

Next ==
    \/ heap = <<>> /\ ErrorsNew("x")
    \/ heap = <<>> /\ ctxs = <<>> /\ \E v \in Vals : MakeMap(MapSet(EmptyMap, "k", v))
    \/ NoneBuilt /\ New(inp.code, inp.message)
    \/ NoneBuilt /\ NewWithField(inp.code, inp.message, "f", "v")
    \/ NoneBuilt /\ \E c \in {NilErr} \cup DOMAIN ctxs :
                        NewWithContext(inp.code, inp.message, c)
    \/ NoneBuilt /\ \E e \in {NilErr} \cup Addrs :
                        Wrap(e, inp.code, inp.message, CallDepth)
    \/ \E e \in ErrorAddrs, msg \in UserMsgs : WithUserMessage(e, msg)
    \/ \E e \in ErrorAddrs, k \in Keys, v \in Vals : WithContext(e, k, v)
    \/ \E e \in ErrorAddrs : AsRetryable(e)
    \/ \E e \in ErrorAddrs, sev \in Severities : WithSeverity(e, sev)
    \/ \E e \in ErrorAddrs : WithCriticalSeverity(e)
    \/ \E e \in ErrorAddrs : WithWarningSeverity(e)
    \/ \E e \in ErrorAddrs : WithInfoSeverity(e)
    \/ \E e \in ErrorAddrs : CallUserMessage(e)
    \/ \E e \in ErrorAddrs : CallErrorCode(e)
    \/ \E e \in ErrorAddrs : CallIsRetryable(e)
    \/ \E e \in ErrorAddrs : CallError(e)

Spec == Init /\ [][Next]_vars

(***************************************************************************)
(* SpecChain: chains of up to MaxErrs links, built from New, Wrap, the     *)
(* literal &Error{Code: c}, errors.New and fmt.Errorf("%w"), and every     *)
(* chain helper called on every link.                                      *)
(***************************************************************************)
ChainCodes == {<<"A">>, <<"B">>}

InitChain ==
    /\ procs = <<>>
    /\ heap = <<>>
    /\ ctxs = <<>>
    /\ clock = 1
    /\ last = [op |-> "init", panic |-> FALSE]
    /\ inp = [code |-> <<"A">>, message |-> "m"]

ErrValues == {NilErr} \cup Addrs
IsTargets == {NilErr, NilErrorPtr} \cup Addrs

Helpers == {"Unwrap", "RootCause", "HasCode", "Is", "As", "errors.Is",
            "errors.As"}

\* A run builds its chain and then makes one helper call on it.
Building == last.op \notin Helpers

NextChain ==
    \/ Building /\ \E c \in ChainCodes : New(c, inp.message)
    \/ Building /\ \E c \in ChainCodes : ErrorLiteral(c)
    \/ Building /\ \E e \in ErrValues, c \in ChainCodes :
                        Wrap(e, c, inp.message, CallDepth)
    \/ Building /\ ErrorsNew("x")
    \/ Building /\ \E e \in Addrs : FmtErrorfW(e)
    \/ Building /\ \E e \in ErrorAddrs : CallUnwrap(e)
    \/ Building /\ \E e \in ErrValues : CallRootCause(e)
    \/ Building /\ \E e \in ErrValues, c \in ChainCodes : CallHasCode(e, c)
    \/ Building /\ \E e \in ErrorAddrs, t \in IsTargets : CallIs(e, t)
    \/ Building /\ \E e \in ErrorAddrs, t \in Targets : CallAs(e, t)
    \/ Building /\ \E e \in ErrValues, t \in IsTargets : CallErrorsIs(e, t)
    \/ Building /\ \E e \in ErrValues, t \in Targets : CallErrorsAs(e, t)

SpecChain == InitChain /\ [][NextChain]_vars

(***************************************************************************)
(* Properties.                                                             *)
(***************************************************************************)
Blank(code) == Len(code) = 0 \/ OnlyWhitespace(code)

\* C2: the code of every Error made by a constructor, whatever builder
\* calls followed, is never empty and never made only of white space.
C2_CodeNeverBlank ==
    \A e \in ErrorAddrs : ~Blank(heap[e].Code)

\* The links reachable from err by zero or more unwrap steps.
RECURSIVE Links(_)
Links(err) ==
    IF err = NilErr THEN {} ELSE {err} \cup Links(ErrorsUnwrap(err))

\* C3: RootCause(err) is the one link reachable from err whose unwrap is
\* nil; it is err itself when err exposes no cause.
C3_RootCauseIsLastLink ==
    (last.op = "RootCause" /\ last.err # NilErr) =>
        /\ last.ret \in Links(last.err)
        /\ ErrorsUnwrap(last.ret) = NilErr
        /\ \A a \in Links(last.err) : ErrorsUnwrap(a) = NilErr => a = last.ret
        /\ ErrorsUnwrap(last.err) = NilErr => last.ret = last.err

\* RootCause(Wrap(Wrap(n, A, m1), B, m2)) was called for a foreign n, and
\* returned n.
C3_Witness ==
    /\ last.op = "RootCause"
    /\ last.err # NilErr
    /\ heap[last.err].kind = "Error"
    /\ heap[last.err].Cause # NilErr
    /\ heap[heap[last.err].Cause].kind = "Error"
    /\ heap[heap[last.err].Cause].Code # heap[last.err].Code
    /\ heap[heap[last.err].Cause].Cause # NilErr
    /\ heap[heap[heap[last.err].Cause].Cause].kind = "Foreign"
    /\ last.ret = heap[heap[last.err].Cause].Cause

\* C4: HasCode(err, code) is true exactly when some link reachable from
\* err is an *Error whose Code is code; foreign links and *Error links with
\* another code do not end the walk.
C4_HasCodeIffSomeLink ==
    last.op = "HasCode" =>
        (last.ret <=> \E a \in Links(last.err) :
                          heap[a].kind = "Error" /\ heap[a].Code = last.code)

\* HasCode found the code on the third link, behind a foreign link and an
\* *Error with another code.
C4_Witness ==
    /\ last.op = "HasCode"
    /\ last.ret
    /\ last.err # NilErr
    /\ heap[last.err].kind = "Foreign"
    /\ LET second == ErrorsUnwrap(last.err)
       IN  /\ second # NilErr
           /\ heap[second].kind = "Error"
           /\ heap[second].Code # last.code
           /\ heap[second].Cause # NilErr
           /\ heap[heap[second].Cause].kind = "Error"
           /\ heap[heap[second].Cause].Code = last.code

C6_AsSkipsReceiver ==
    last.op = "As" =>
        /\ heap[last.recv].Cause = NilErr
              => (~last.ret /\ ~last.panic /\ last.slot = NilErr)
        /\ last.ret => (last.slot \in Links(heap[last.recv].Cause)
                        /\ last.slot # last.recv)
        /\ (/\ heap[last.recv].Cause # NilErr
            /\ heap[heap[last.recv].Cause].kind = "Foreign"
            /\ last.target = [kind |-> "ptr", elem |-> "error"])
              => (last.ret /\ last.slot = heap[last.recv].Cause)

\* As was called on Wrap(n, C, m) with an error variable, and stored n.
C6_Witness ==
    /\ last.op = "As"
    /\ last.target = [kind |-> "ptr", elem |-> "error"]
    /\ heap[last.recv].Stack # NilStack
    /\ heap[last.recv].Cause # NilErr
    /\ heap[heap[last.recv].Cause].kind = "Foreign"
    /\ heap[heap[last.recv].Cause].typ = "*errors.errorString"
    /\ last.ret
    /\ last.slot = heap[last.recv].Cause

\* The targets C7 is about: a nil target, and a target whose type no link
\* As or Is searches has.
NullTarget(call) ==
    IF call.op = "As" THEN call.target.kind = "nil"
    ELSE call.target = NilErr

MismatchedTarget(call) ==
    IF call.op = "As"
    THEN /\ call.target.kind = "ptr"
         /\ \A a \in Links(heap[call.recv].Cause) :
                ~AssignableTo(TypeOf(a), call.target.elem)
    ELSE call.target \in Addrs \ ErrorAddrs

\* C7: As and Is return false, and do not panic, for a nil target and for
\* a target of a type that does not match, whether or not the receiver has
\* a cause.
C7_NoPanicOnBadTarget ==
    (last.op \in {"Is", "As"} /\ (NullTarget(last) \/ MismatchedTarget(last)))
        => (~last.ret /\ ~last.panic)

\* C8: errors.As into a *Error variable succeeds for every *Error err and
\* stores err itself, the outermost *Error of the chain; errors.Is against
\* another *Error with err's Code succeeds.
C8_StdlibFindsReceiver ==
    /\ (/\ last.op = "errors.As"
        /\ last.err \in ErrorAddrs
        /\ last.target = [kind |-> "ptr", elem |-> "*Error"])
          => (last.ret /\ ~last.panic /\ last.slot = last.err)
    /\ (/\ last.op = "errors.Is"
        /\ last.err \in ErrorAddrs
        /\ last.target \in ErrorAddrs
        /\ heap[last.target].Code = heap[last.err].Code)
          => (last.ret /\ ~last.panic)

\* errors.Is matched an *Error that has a cause against the literal
\* &Error{Code: c}, a distinct value with the same code.
C8_Witness ==
    /\ last.op = "errors.Is"
    /\ last.err \in ErrorAddrs
    /\ last.target \in ErrorAddrs
    /\ last.target # last.err
    /\ heap[last.err].Cause # NilErr
    /\ heap[last.target] = [ZeroError EXCEPT !.Code = heap[last.err].Code]
    /\ last.ret

\* C9: UserMessage() is the user message when that is not empty and the
\* technical message otherwise; so it is not empty when Message is not,
\* and is empty only when both are.
C9_UserMessageFallback ==
    last.op = "UserMessage" =>
        LET e == heap[last.recv]
        IN  /\ e.UserMsg # "" => last.ret = e.UserMsg
            /\ e.UserMsg = "" => last.ret = e.Message
            /\ e.Message # "" => last.ret # ""
            /\ last.ret = "" <=> (e.UserMsg = "" /\ e.Message = "")

\* UserMessage() fell back to a non-empty Message after the user message
\* had been set to the empty string.
C9_Witness ==
    /\ last.op = "UserMessage"
    /\ heap[last.recv].UserMsg = ""
    /\ heap[last.recv].Message # ""
    /\ last.ret = heap[last.recv].Message

Mutators == {"WithUserMessage", "WithContext", "AsRetryable", "WithSeverity"}

\* C10: every builder mutator returns its receiver, and its write is on
\* the receiver.
C10_MutatorReturnsReceiver ==
    last.op \in Mutators =>
        /\ last.ret = last.recv
        /\ last.op = "WithUserMessage" => heap[last.recv].UserMsg = last.msg
        /\ last.op = "WithContext" =>
              /\ heap[last.recv].Context # NilErr
              /\ last.key \in DOMAIN ctxs[heap[last.recv].Context]
              /\ ctxs[heap[last.recv].Context][last.key] = last.value
        /\ last.op = "AsRetryable" => heap[last.recv].Retryable
        /\ last.op = "WithSeverity" =>
              heap[last.recv].Severity = last.severity

\* WithCriticalSeverity returned its receiver, now of severity critical.
C10_Witness ==
    /\ last.op = "WithSeverity"
    /\ last.severity = SeverityCritical
    /\ last.ret = last.recv
    /\ heap[last.recv].Severity = SeverityCritical
    /\ heap[last.recv].UserMsg # ""

\* C11: WithContext(k, v) on a receiver whose Context is nil allocates the
\* map, which then holds exactly k -> v; on a receiver that has a map it
\* sets k to v in that map and leaves every other key as it was.
C11_WithContextSetsOneKey ==
    [][last'.op = "WithContext" =>
         LET e == last'.recv
             k == last'.key
             old == heap[e].Context
             new == heap'[e].Context
         IN  /\ new # NilErr
             /\ ctxs'[new][k] = last'.value
             /\ old = NilErr => DOMAIN ctxs'[new] = {k}
             /\ old # NilErr =>
                   /\ new = old
                   /\ DOMAIN ctxs'[new] = DOMAIN ctxs[old] \cup {k}
                   /\ \A j \in DOMAIN ctxs[old] \ {k} :
                          ctxs'[new][j] = ctxs[old][j]]_vars

\* WithContext wrote one key of a map that holds another key too.
C11_Witness ==
    /\ last.op = "WithContext"
    /\ last.key = "k"
    /\ last.value = "v2"
    /\ DOMAIN ctxs[heap[last.recv].Context] = {"k", "k2"}
    /\ ctxs[heap[last.recv].Context]["k2"] = "v1"

\* C12: the value a constructor returns is a new one, of severity "error",
\* not retryable, with an empty user message.  New and NewWithField give
\* it an empty non-nil Context, no Cause and no Stack; NewWithContext
\* stores the very map it was given, no Cause and no Stack; a Stack is
\* present only on a value Wrap returned.
C12_ConstructorDefaults ==
    last.op \in Constructors =>
        LET v == heap[last.ret]
        IN  /\ last.ret = Len(heap)
            /\ v.Severity = "error"
            /\ ~v.Retryable
            /\ v.UserMsg = ""
            /\ last.op \in {"New", "NewWithField"} =>
                  /\ v.Context # NilErr
                  /\ ctxs[v.Context] = EmptyMap
                  /\ v.Cause = NilErr
                  /\ v.Stack = NilStack
            /\ last.op = "NewWithContext" =>
                  /\ v.Context = last.context
                  /\ v.Cause = NilErr
                  /\ v.Stack = NilStack
            /\ v.Stack # NilStack => last.op = "Wrap"

\* NewWithContext was handed a map that holds an entry, and stored it.
C12_Witness ==
    /\ last.op = "NewWithContext"
    /\ last.context # NilErr
    /\ ctxs[last.context] # EmptyMap
    /\ heap[last.ret].Context = last.context
    /\ heap[last.ret].Stack = NilStack

(***************************************************************************)
(* SpecCtx: a caller holds one map variable ctx, nil or a map of its own   *)
(* making, builds up to MaxErrs errors from it with NewWithContext, and    *)
(* goes on writing and deleting keys of ctx while WithContext is called on *)
(* the errors.                                                             *)
(***************************************************************************)
\* The caller's statement ctx[key] = value; on a nil map Go panics, so the
\* caller makes it only on a map.
CallerSet(c, key, value) ==
    /\ c # NilErr
    /\ ctxs' = [ctxs EXCEPT ![c] = MapSet(ctxs[c], key, value)]
    /\ last' = [op |-> "ctx[k]=v", map |-> c, key |-> key, value |-> value,
                panic |-> FALSE]
    /\ UNCHANGED <<heap, clock, inp, procs>>

\* The caller's statement delete(ctx, key); a no-op on a nil map.
CallerDelete(c, key) ==
    /\ ctxs' = IF c = NilErr THEN ctxs
               ELSE [ctxs EXCEPT ![c] =
                        [k \in DOMAIN ctxs[c] \ {key} |-> ctxs[c][k]]]
    /\ last' = [op |-> "delete", map |-> c, key |-> key, panic |-> FALSE]
    /\ UNCHANGED <<heap, clock, inp, procs>>

CallerMaps == UNION {[ks -> Vals] : ks \in SUBSET Keys}

InitCtx ==
    /\ procs = <<>>
    /\ heap = <<>>
    /\ clock = 1
    /\ last = [op |-> "init", panic |-> FALSE]
    /\ \/ ctxs = <<>>
       \/ \E m \in CallerMaps : ctxs = <<m>>
    /\ inp = [code |-> <<"A">>, message |-> "m", ctx |-> Len(ctxs)]

NextCtx ==
    \/ NewWithContext(inp.code, inp.message, inp.ctx)
    \/ \E e \in ErrorAddrs, k \in Keys, v \in Vals : WithContext(e, k, v)
    \/ \E k \in Keys, v \in Vals : CallerSet(inp.ctx, k, v)
    \/ \E k \in Keys : CallerDelete(inp.ctx, k)

SpecCtx == InitCtx /\ [][NextCtx]_vars

\* What reading the map at c shows: a nil map reads as an empty one.
View(c) == IF c = NilErr THEN EmptyMap ELSE ctxs[c]

\* C13 as stated: whatever map the caller hands NewWithContext, the
\* caller's ctx and the Context of every error built from it show the same
\* entries after every later write by either side.
C13_SharesCallerMap ==
    \A e \in ErrorAddrs : View(heap[e].Context) = View(inp.ctx)

\* C13: when the map handed to NewWithContext is not nil, the caller's ctx
\* and the Context of every error built from it show the same entries
\* after every insertion, overwrite and removal by the caller and every
\* WithContext on any of the errors.
C13_SharesNonNilCallerMap ==
    inp.ctx # NilErr =>
        \A e \in ErrorAddrs : View(heap[e].Context) = View(inp.ctx)

\* WithContext on the first of two errors built from one map added a key,
\* and the caller's ctx and the second error show it.
C13_Witness ==
    /\ inp.ctx # NilErr
    /\ {1, 2} \subseteq ErrorAddrs
    /\ last.op = "WithContext"
    /\ last.recv = 1
    /\ last.key \in DOMAIN View(inp.ctx)
    /\ View(inp.ctx)[last.key] = last.value
    /\ View(heap[2].Context) = View(inp.ctx)
    /\ DOMAIN View(inp.ctx) = Keys

\* C14: Wrap(cause, code, message) returns a new value whose Cause is the
\* very error it was given, whose Context is an empty non-nil map and whose
\* Stack is not nil, so that Unwrap of it is that error; Unwrap returns the
\* receiver's immediate cause, one level down, or nil when there is none.
C14_WrapKeepsCause ==
    /\ last.op = "Wrap" =>
          LET v == heap[last.ret]
          IN  /\ last.ret = Len(heap)
              /\ v.Cause = last.err
              /\ v.Context # NilErr
              /\ ctxs[v.Context] = EmptyMap
              /\ v.Stack # NilStack
              /\ Unwrap(last.ret) = last.err
    /\ last.op = "Unwrap" =>
          /\ last.ret = heap[last.recv].Cause
          /\ last.ret # NilErr => last.ret \in Links(last.recv) \ {last.recv}

\* Unwrap was called on Wrap(Wrap(n, A, m), B, m), n not nil, and returned
\* the inner Wrap's value, not n.
C14_Witness ==
    /\ last.op = "Unwrap"
    /\ heap[last.recv].Stack # NilStack
    /\ last.ret # NilErr
    /\ heap[last.ret].kind = "Error"
    /\ heap[last.ret].Stack # NilStack
    /\ heap[last.ret].Cause # NilErr
    /\ last.ret # RootCause(last.recv)

(***************************************************************************)
(* SpecStack: CaptureStacktrace, in both variants, on every stack depth up *)
(* to MaxStackDepth with every skip up to MaxSkip, and String on what was  *)
(* captured, on a nil *Stacktrace and on a Stacktrace the caller wrote.    *)
(***************************************************************************)
CallCaptureStacktrace(skip, depth) ==
    Returns([op |-> "CaptureStacktrace", skip |-> skip, depth |-> depth,
             max |-> maxDepth, ret |-> CaptureStacktrace(skip, depth),
             panic |-> FALSE])

CallCaptureStacktraceAdaptive(skip, depth) ==
    Returns([op |-> "CaptureStacktrace", skip |-> skip, depth |-> depth,
             max |-> maxDepthAdaptive,
             ret |-> CaptureStacktraceAdaptive(skip, depth),
             panic |-> FALSE])

\* var stack *Stacktrace
NilStacktrace ==
    Returns([op |-> "*Stacktrace", ret |-> NilStack, panic |-> FALSE])

\* &Stacktrace{Frames: frames}
StacktraceLiteral(frames) ==
    Returns([op |-> "&Stacktrace{}", ret |-> [Frames |-> frames],
             panic |-> FALSE])

CallString(s) ==
    Returns([op |-> "String", recv |-> s, ret |-> String(s).ret,
             panic |-> String(s).panic])

PCs == 0..2
FrameSeqs == UNION {[1..n -> PCs] : n \in 0..MaxFrames}

InitStack ==
    /\ procs = <<>>
    /\ heap = <<>>
    /\ ctxs = <<>>
    /\ clock = 1
    /\ last = [op |-> "init", panic |-> FALSE]
    /\ inp \in [skip : 0..MaxSkip, depth : 0..MaxStackDepth,
                frames : FrameSeqs]

StackMakers == {"CaptureStacktrace", "*Stacktrace", "&Stacktrace{}"}

NextStack ==
    \/ last.op = "init" /\ CallCaptureStacktrace(inp.skip, inp.depth)
    \/ last.op = "init" /\ CallCaptureStacktraceAdaptive(inp.skip, inp.depth)
    \/ last.op = "init" /\ NilStacktrace
    \/ last.op = "init" /\ StacktraceLiteral(inp.frames)
    \/ last.op \in StackMakers /\ CallString(last.ret)

SpecStack == InitStack /\ [][NextStack]_vars

\* C19: CaptureStacktrace(skip) on a stack of depth d returns a Stacktrace
\* that is not nil and holds min(max(d - (skip + 2), 0), maxDepth) frames,
\* the frames of the stack in order from the one skip + 2 below the top,
\* maxDepth being 32 in the simple variant and 64 in the adaptive one.
C19_CaptureCount ==
    last.op = "CaptureStacktrace" =>
        LET rest == last.depth - (last.skip + 2)
            avail == IF rest > 0 THEN rest ELSE 0
            n == Len(last.ret.Frames)
        IN  /\ last.ret # NilStack
            /\ last.max \in {32, 64}
            /\ n = (IF avail < last.max THEN avail ELSE last.max)
            /\ n <= last.max
            /\ \A i \in 1..n : last.ret.Frames[i] = last.skip + 2 + i

\* The adaptive variant read a stack with more than 64 frames below the
\* skipped ones and returned 64 of them.
C19_Witness ==
    /\ last.op = "CaptureStacktrace"
    /\ last.max = 64
    /\ last.skip = 1
    /\ last.depth - (last.skip + 2) > 64
    /\ Len(last.ret.Frames) = 64
    /\ last.ret.Frames[64] = 67

\* One block per program counter, the zero Frame standing for a counter
\* that cannot be resolved.
PerFrame(pcs) ==
    Blocks([i \in 1..Len(pcs) |->
               IF funcInfoValid(pcs[i]) THEN FrameOf(pcs[i]) ELSE ZeroFrame])

\* C20 as stated: String never panics, returns the empty string for a nil
\* receiver and for one with no frames, and otherwise one block
\* "<function>\n\t<file>:<line>\n" for each frame, in capture order.
C20_OneBlockPerFrame ==
    last.op = "String" =>
        /\ ~last.panic
        /\ IF last.recv = NilStack \/ Len(last.recv.Frames) = 0
           THEN last.ret = <<>>
           ELSE last.ret = PerFrame(last.recv.Frames)

\* C20: String never panics, returns the empty string for a nil receiver
\* and for one with no frames, and otherwise one block
\* "<function>\n\t<file>:<line>\n", the line in decimal, for each frame
\* that resolves, in capture order; a frame that does not resolve is
\* skipped, and when none resolves the text is the one block "\n\t:0\n".
C20_OneBlockPerResolvedFrame ==
    last.op = "String" =>
        /\ ~last.panic
        /\ IF last.recv = NilStack \/ Len(last.recv.Frames) = 0
           THEN last.ret = <<>>
           ELSE LET resolved == SelectSeq(last.recv.Frames, funcInfoValid)
                IN  IF resolved = <<>>
                    THEN last.ret = <<"\n", "\t", ":", "0", "\n">>
                    ELSE last.ret = PerFrame(resolved)

\* String was called on a capture of two frames and returned their two
\* blocks, in order.
C20_Witness ==
    /\ last.op = "String"
    /\ last.recv = CaptureStacktrace(0, 4)
    /\ last.ret = <<"f", "3", "\n", "\t", "f", "3", ".", "g", "o", ":",
                    "1", "2", "\n",
                    "f", "4", "\n", "\t", "f", "4", ".", "g", "o", ":",
                    "1", "3", "\n">>

\* C18: Error() is "[" then the stored Code then "]: " then Message, and
\* nothing more: Field, Value, UserMsg, Severity and Cause do not show.
C18_ErrorIsCodeAndMessage ==
    last.op = "Error" =>
        LET e == heap[last.recv]
            n == Len(e.Code)
        IN  /\ Len(last.ret) = n + 4 + Len(Text(e.Message))
            /\ last.ret[1] = "["
            /\ SubSeq(last.ret, 2, n + 1) = e.Code
            /\ SubSeq(last.ret, n + 2, n + 4) = <<"]", ":", " ">>
            /\ SubSeq(last.ret, n + 5, Len(last.ret)) = Text(e.Message)

\* Error() was called on a retryable Wrap value of code A and message m
\* that has a user message, a cause and severity critical, and returned
\* "[A]: m".
C18_Witness ==
    /\ last.op = "Error"
    /\ heap[last.recv].UserMsg = "u"
    /\ heap[last.recv].Severity = SeverityCritical
    /\ heap[last.recv].Cause # NilErr
    /\ heap[last.recv].Retryable
    /\ last.ret = <<"[", "A", "]", ":", " ", "m">>

(***************************************************************************)
(* MarshalJSON.  The JSON document is modelled as the value a decoder      *)
(* reads back: a string, a boolean, or an object, which is a function from *)
(* its keys to values.  encoding/json sees the struct                      *)
(*     struct { *Alias; Stack string `json:"stack,omitempty"` }            *)
(* whose Stack hides the Alias's: every field of Error under its tag, and  *)
(* the stack as the text String() gives.                                   *)
(***************************************************************************)
JString(str) == [t |-> "string", v |-> str]
JBool(b) == [t |-> "bool", v |-> b]
JObject(f) == [t |-> "object", v |-> f]

\* time.Time's MarshalJSON: the reading as RFC 3339 text.
RFC3339(ts) == <<"T">> \o Itoa(ts)

\* A context value encoding/json has no encoding for: a channel.
Chan == "chan"
Unserializable == {Chan}
JSONVals == {"v1", Chan}

\* A field with no omitempty in its tag.
Always(key, val) == key :> val

\* A slip the struct tags could have: omitempty left out.
OmitEmptyMissing(empty, key, val) == key :> val

\* A field tagged omitempty: left out when its value is the empty string,
\* false, a nil interface, a nil pointer or a map of length 0.
OmitEmpty(empty, key, val) == IF empty THEN EmptyMap ELSE key :> val

\* A slip the encoding of a map could have: an entry with no encoding
\* passed over in silence.
UnsupportedIgnored(m) == FALSE

\* The map holds a value for which the encoder returns
\* UnsupportedTypeError.
Unsupported(m) == \E k \in DOMAIN m : m[k] \in Unserializable

encodeMap(m) == JObject([k \in DOMAIN m |-> JString(Text(m[k]))])

\* The Stack string of the anonymous struct.
StackText(e) ==
    IF heap[e].Stack # NilStack THEN String(heap[e].Stack).ret ELSE <<>>

ContextOf(e) == IF heap[e].Context = NilErr THEN EmptyMap
                ELSE ctxs[heap[e].Context]

\* The result of MarshalJSON: the document, or the encoder's error.
JSONOk(doc) == [err |-> FALSE, out |-> doc]
JSONErr == [err |-> TRUE, out |-> JObject(EmptyMap)]

RECURSIVE MarshalJSON(_)

\* The Cause field, an error interface: an *Error is a json.Marshaler and
\* is encoded by its own MarshalJSON; *errors.errorString and
\* *fmt.wrapError are pointers to structs with no exported field, which
\* encode as the empty object.
encodeCause(c) ==
    IF heap[c].kind = "Error" THEN MarshalJSON(c)
    ELSE JSONOk(JObject(EmptyMap))

MarshalJSON(e) ==
    LET v == heap[e]
        cause == IF v.Cause = NilErr THEN JSONOk(JObject(EmptyMap))
                 ELSE encodeCause(v.Cause)
    IN  IF Unsupported(ContextOf(e)) \/ cause.err
        THEN JSONErr
        ELSE JSONOk(JObject(
                 Always("code", JString(v.Code))
              @@ Always("message", JString(Text(v.Message)))
              @@ OmitEmpty(v.Field = "", "field", JString(Text(v.Field)))
              @@ OmitEmpty(v.Value = "", "value", JString(Text(v.Value)))
              @@ OmitEmpty(DOMAIN ContextOf(e) = {}, "context",
                           encodeMap(ContextOf(e)))
              @@ Always("timestamp", JString(RFC3339(v.Timestamp)))
              @@ OmitEmpty(v.Cause = NilErr, "cause", cause.out)
              @@ Always("severity", JString(Text(v.Severity)))
              @@ OmitEmpty(v.UserMsg = "", "user_msg",
                           JString(Text(v.UserMsg)))
              @@ OmitEmpty(~v.Retryable, "retryable", JBool(v.Retryable))
              @@ OmitEmpty(StackText(e) = <<>>, "stack",
                           JString(StackText(e)))))

CallMarshalJSON(e) ==
    Returns([op |-> "MarshalJSON", recv |-> e, err |-> MarshalJSON(e).err,
             out |-> MarshalJSON(e).out, panic |-> FALSE])

\* The caller's assignment err.Stack = &Stacktrace{Frames: frames}.
SetStack(e, frames) ==
    /\ heap' = [heap EXCEPT ![e].Stack = [Frames |-> frames]]
    /\ last' = [op |-> "Stack=", recv |-> e, panic |-> FALSE]
    /\ UNCHANGED <<ctxs, clock, inp, procs>>

(***************************************************************************)
(* SpecJSON: up to MaxErrs values built from errors.New, the constructors *)
(* and Wrap, which wraps nil or the value built last; builder calls and a  *)
(* Stack assignment on one of the values; then one MarshalJSON call on any *)
(* *Error among them.                                                      *)
(***************************************************************************)
InitJSON ==
    /\ procs = <<>>
    /\ heap = <<>>
    /\ ctxs = <<>>
    /\ clock = 1
    /\ last = [op |-> "init", panic |-> FALSE]
    /\ inp = [code |-> <<"A">>, message |-> "m"]

\* The value is as its constructor left it.
Pristine(a) ==
    /\ heap[a].UserMsg = ""
    /\ ~heap[a].Retryable
    /\ ContextOf(a) = EmptyMap
    /\ heap[a].Stack # [Frames |-> <<>>]

\* A run makes its builder calls on one value.
OnlyChanged(e) == \A a \in ErrorAddrs \ {e} : Pristine(a)

Marshalling == last.op = "MarshalJSON"

NextJSON ==
    \/ ~Marshalling /\ ErrorsNew("x")
    \/ ~Marshalling /\ New(inp.code, inp.message)
    \/ ~Marshalling /\ NewWithField(inp.code, inp.message, "f", "v")
    \/ ~Marshalling /\ NewWithContext(inp.code, inp.message, NilErr)
    \/ ~Marshalling /\ \E e \in {NilErr, Len(heap)} :
                          Wrap(e, inp.code, inp.message, CallDepth)
    \/ ~Marshalling /\ \E e \in ErrorAddrs :
                          OnlyChanged(e) /\ WithUserMessage(e, "u")
    \/ ~Marshalling /\ \E e \in ErrorAddrs, v \in JSONVals :
                          OnlyChanged(e) /\ WithContext(e, "k", v)
    \/ ~Marshalling /\ \E e \in ErrorAddrs :
                          OnlyChanged(e) /\ AsRetryable(e)
    \/ ~Marshalling /\ \E e \in ErrorAddrs :
                          OnlyChanged(e) /\ SetStack(e, <<>>)
    \/ ~Marshalling /\ \E e \in ErrorAddrs : CallMarshalJSON(e)

SpecJSON == InitJSON /\ [][NextJSON]_vars

JSONKeys == {"code", "message", "field", "value", "context", "timestamp",
             "cause", "severity", "stack", "user_msg", "retryable"}

\* C15: the document MarshalJSON gives always has code, message,
\* timestamp and severity; has field, value and user_msg exactly when the
\* string is not empty, context exactly when the map has an entry, cause
\* exactly when Cause is not nil, retryable exactly when it is true, and
\* stack exactly when String() of the Stack is not empty, which it is for
\* a Stack that holds frames; stack then holds that text.
C15_OmissionRules ==
    (last.op = "MarshalJSON" /\ ~last.err) =>
        LET v == heap[last.recv]
            doc == last.out.v
            keys == DOMAIN doc
        IN  /\ last.out.t = "object"
            /\ keys \subseteq JSONKeys
            /\ {"code", "message", "timestamp", "severity"} \subseteq keys
            /\ "field" \in keys <=> v.Field # ""
            /\ "value" \in keys <=> v.Value # ""
            /\ "user_msg" \in keys <=> v.UserMsg # ""
            /\ "context" \in keys <=>
                  (v.Context # NilErr /\ DOMAIN ctxs[v.Context] # {})
            /\ "cause" \in keys <=> v.Cause # NilErr
            /\ "retryable" \in keys <=> v.Retryable
            /\ "stack" \in keys <=>
                  (v.Stack # NilStack /\ Len(v.Stack.Frames) > 0)
            /\ "stack" \in keys =>
                  /\ doc["stack"].t = "string"
                  /\ doc["stack"].v # <<>>
                  /\ doc["stack"].v = String(v.Stack).ret

\* MarshalJSON of a retryable value Wrap returned, whose cause is nil:
\* stack and retryable are there, cause, field, value, user_msg and
\* context are not.
C15_Witness ==
    /\ last.op = "MarshalJSON"
    /\ ~last.err
    /\ heap[last.recv].Stack = CaptureStacktrace(1, CallDepth)
    /\ heap[last.recv].Retryable
    /\ DOMAIN last.out.v = {"code", "message", "timestamp", "severity",
                            "retryable", "stack"}

\* The display string of an error of another type: what its Error()
\* returns.
ForeignError(a) == Text(heap[a].msg)

\* C16: under the key cause the document holds, for a cause that is an
\* *Error, the whole document MarshalJSON gives for that cause, and for a
\* cause of another type, one without exported fields, its display
\* string.
C16_CauseEmbedded ==
    (last.op = "MarshalJSON" /\ ~last.err
        /\ heap[last.recv].Cause # NilErr) =>
        LET c == heap[last.recv].Cause
            doc == last.out.v["cause"]
        IN  IF heap[c].kind = "Error"
            THEN doc = MarshalJSON(c).out
            ELSE doc.t = "string" /\ doc.v = ForeignError(c)

\* The receiver and the *Error values MarshalJSON embeds below it.
RECURSIVE Embedded(_)
Embedded(e) ==
    {e} \cup (IF heap[e].Cause # NilErr /\ heap[heap[e].Cause].kind = "Error"
              THEN Embedded(heap[e].Cause) ELSE {})

\* C17: MarshalJSON returns an error, and no document, exactly when the
\* Context of the receiver or of an *Error embedded as its cause holds a
\* value that has no encoding; either way it changes no field of any
\* value and no map.
C17_UnserializableContextFails ==
    [][last'.op = "MarshalJSON" =>
         /\ heap' = heap
         /\ ctxs' = ctxs
         /\ last'.err <=>
               \E a \in Embedded(last'.recv) :
                   \E k \in DOMAIN ContextOf(a) :
                       ContextOf(a)[k] \in Unserializable
         /\ last'.err => last'.out = JObject(EmptyMap)]_vars

\* MarshalJSON failed on a value whose own Context is empty and whose
\* cause, an *Error, holds a channel in its Context.
C17_Witness ==
    /\ last.op = "MarshalJSON"
    /\ last.err
    /\ ContextOf(last.recv) = EmptyMap
    /\ heap[last.recv].Cause # NilErr
    /\ heap[heap[last.recv].Cause].kind = "Error"
    /\ "k" \in DOMAIN ContextOf(heap[last.recv].Cause)
    /\ ContextOf(heap[last.recv].Cause)["k"] = Chan

(***************************************************************************)
(* SpecRace: two goroutines call WithContext on one *Error at once.  The   *)
(* method has no lock, so its statements interleave: the test of           *)
(* e.Context, the make and store of the map, and the map assignment, which *)
(* the runtime carries out between setting and clearing the map's writing  *)
(* flag.  An assignment that starts while the other goroutine is inside    *)
(* one on the same map is a data race: the runtime either sees the flag    *)
(* and ends the program with "fatal error: concurrent map writes", or      *)
(* misses it and carries on.                                               *)
(***************************************************************************)
Goroutines == 1..2

Receiver == 1

At(g, pc) == procs[g].pc = pc

Fatal == \E g \in DOMAIN procs : procs[g].pc = "fatal"

\* Some other goroutine is inside a map assignment on map m.
Writing(g, m) ==
    \E h \in DOMAIN procs \ {g} : procs[h].pc = "store" /\ procs[h].m = m

\* if e.Context == nil
WithContextCheck(g) ==
    /\ ~Fatal
    /\ At(g, "check")
    /\ procs' = [procs EXCEPT ![g].pc =
                    IF heap[Receiver].Context = NilErr THEN "make"
                    ELSE "assign"]
    /\ UNCHANGED <<heap, ctxs, clock, last, inp>>

\* e.Context = make(map[string]interface{})
WithContextMake(g) ==
    /\ ~Fatal
    /\ At(g, "make")
    /\ ctxs' = Append(ctxs, EmptyMap)
    /\ heap' = [heap EXCEPT ![Receiver].Context = NewCtx]
    /\ procs' = [procs EXCEPT ![g].pc = "assign"]
    /\ UNCHANGED <<clock, last, inp>>

\* e.Context[key] = value, entered: the map is read from the field and its
\* writing flag is tested and set.
WithContextAssign(g) ==
    /\ ~Fatal
    /\ At(g, "assign")
    /\ LET m == heap[Receiver].Context
       IN  \/ procs' = [procs EXCEPT ![g].pc = "store", ![g].m = m]
           \/ /\ Writing(g, m)
              /\ procs' = [procs EXCEPT ![g].pc = "fatal"]
    /\ UNCHANGED <<heap, ctxs, clock, last, inp>>

\* e.Context[key] = value, completed, and return e.
WithContextStore(g) ==
    /\ ~Fatal
    /\ At(g, "store")
    /\ ctxs' = [ctxs EXCEPT ![procs[g].m] =
                   MapSet(ctxs[procs[g].m], procs[g].key, procs[g].value)]
    /\ procs' = [procs EXCEPT ![g].pc = "done"]
    /\ last' = [op |-> "WithContext", recv |-> Receiver,
                key |-> procs[g].key, value |-> procs[g].value,
                ret |-> Receiver, panic |-> FALSE]
    /\ UNCHANGED <<heap, clock, inp>>

\* The receiver is what New (an empty map) or NewWithContext with a nil
\* map returned; each goroutine is about to call WithContext(key, value).
InitRace ==
    /\ ctxs \in {<<>>, <<EmptyMap>>}
    /\ heap = <<[ZeroError EXCEPT !.Code = <<"A">>, !.Message = "m",
                                  !.Timestamp = 1, !.Severity = "error",
                                  !.Context = Len(ctxs)]>>
    /\ clock = 2
    /\ last = [op |-> "init", panic |-> FALSE]
    /\ inp = [code |-> <<"A">>, message |-> "m"]
    /\ procs \in [Goroutines -> [pc : {"check"}, key : Keys, value : Vals,
                                 m : {NilErr}]]

NextRace ==
    \E g \in Goroutines :
        \/ WithContextCheck(g)
        \/ WithContextMake(g)
        \/ WithContextAssign(g)
        \/ WithContextStore(g)

SpecRace == InitRace /\ [][NextRace]_vars

AllDone == \A g \in DOMAIN procs : procs[g].pc = "done"

\* C21: two concurrent WithContext calls on one value both complete, with
\* no failure of the program, and afterwards each key written holds the
\* value one of the two calls wrote to it.
C21_LastWriteWins ==
    /\ ~Fatal
    /\ AllDone =>
          \A g \in DOMAIN procs :
              /\ procs[g].key \in DOMAIN ContextOf(Receiver)
              /\ \E h \in DOMAIN procs :
                    /\ procs[h].key = procs[g].key
                    /\ ContextOf(Receiver)[procs[g].key] = procs[h].value

\* What the two calls leave in a map that was empty when goroutine g's
\* call runs to its end before goroutine h's starts.
InOrder(g, h) ==
    MapSet(MapSet(EmptyMap, procs[g].key, procs[g].value),
           procs[h].key, procs[h].value)

\* C22: when the two calls have returned, the value is as one of the two
\* sequential orders of the calls leaves it.
C22_AsSomeSequentialOrder ==
    (procs # <<>> /\ AllDone) =>
        ContextOf(Receiver) \in {InOrder(1, 2), InOrder(2, 1)}

(***************************************************************************)
(* SpecLib: every operation of the library that makes or changes a value:  *)
(* the four constructors over nil and over every value made so far, the    *)
(* builder mutators on one of the values, and the caller's errors.New and  *)
(* fmt.Errorf("%w"), the latter around the value made last.                *)
(***************************************************************************)
InitLib ==
    /\ heap = <<>>
    /\ ctxs = <<>>
    /\ clock = 1
    /\ last = [op |-> "init", panic |-> FALSE]
    /\ inp = [code |-> <<"A">>, message |-> "m"]
    /\ procs = <<>>

\* A run makes its builder calls on one value: every other value is as
\* its constructor left it.
OnlyBuilt(e) ==
    \A a \in ErrorAddrs \ {e} :
        Pristine(a) /\ heap[a].Severity = SeverityError

NextLib ==
    \/ ErrorsNew("x")
    \/ FmtErrorfW(Len(heap))
    \/ New(inp.code, inp.message)
    \/ NewWithField(inp.code, inp.message, "f", "v")
    \/ NewWithContext(inp.code, inp.message, NilErr)
    \/ \E e \in ErrValues : Wrap(e, inp.code, inp.message, CallDepth)
    \/ \E e \in ErrorAddrs : OnlyBuilt(e) /\ WithUserMessage(e, "u")
    \/ \E e \in ErrorAddrs : OnlyBuilt(e) /\ WithContext(e, "k", "v1")
    \/ \E e \in ErrorAddrs : OnlyBuilt(e) /\ AsRetryable(e)
    \/ \E e \in ErrorAddrs : OnlyBuilt(e) /\ WithSeverity(e, SeverityError)
    \/ \E e \in ErrorAddrs : OnlyBuilt(e) /\ WithCriticalSeverity(e)
    \/ \E e \in ErrorAddrs : OnlyBuilt(e) /\ WithWarningSeverity(e)
    \/ \E e \in ErrorAddrs : OnlyBuilt(e) /\ WithInfoSeverity(e)

SpecLib == InitLib /\ [][NextLib]_vars

\* The walk from a by errors.Unwrap ends at nil within n steps.
RECURSIVE WalkEnds(_, _)
WalkEnds(a, n) ==
    IF a = NilErr THEN TRUE
    ELSE IF n = 0 THEN FALSE
    ELSE WalkEnds(ErrorsUnwrap(a), n - 1)

Acyclic == \A a \in Addrs : WalkEnds(a, Len(heap))

\* The link of the value at a in heap h: the Cause of an *Error, the
\* wrapped error of a foreign link.
LinkOf(h, a) == IF h[a].kind = "Error" THEN h[a].Cause ELSE h[a].err

\* A step leaves the link of every value there was as it is, and links a
\* value it makes to nil or to a value there was.
CausesKept ==
    /\ \A a \in DOMAIN heap :
          a \in DOMAIN heap' /\ LinkOf(heap', a) = LinkOf(heap, a)
    /\ \A a \in DOMAIN heap' \ DOMAIN heap :
          LinkOf(heap', a) \in {NilErr} \cup DOMAIN heap

\* C23: after any sequence of constructor and mutator calls, the chain
\* from every value ends at nil without passing one value twice; no call
\* writes the Cause of a value that exists, and Wrap links the value it
\* makes to a value that exists.
C23_ChainsStayAcyclic ==
    []Acyclic /\ [][CausesKept]_vars

\* Three values in one chain, the outermost with a mutator applied.
C23_Witness ==
    /\ last.op = "WithSeverity"
    /\ heap[last.recv].Cause # NilErr
    /\ ErrorsUnwrap(heap[last.recv].Cause) # NilErr
    /\ Acyclic

\* C25: for every stack depth and every skip, the adaptive CaptureStacktrace
\* returns exactly the frames a single runtime.Callers(skip + 2) into a
\* 64-frame buffer returns, and when at most 32 frames are available it
\* returns the frames the 32-frame variant returns.
C25_AdaptiveEqualsOneCapture ==
    (last.op = "CaptureStacktrace" /\ last.max = maxDepthAdaptive) =>
        LET rest == last.depth - (last.skip + 2)
            avail == IF rest > 0 THEN rest ELSE 0
        IN  /\ last.ret =
                 [Frames |-> Callers(last.skip + 2, maxDepthAdaptive,
                                     last.depth)]
            /\ avail <= maxDepth =>
                 last.ret = CaptureStacktrace(last.skip, last.depth)

\* The adaptive variant read a stack with exactly 16 frames below the
\* skipped ones: the first buffer came back full, the second capture ran
\* and returned the same 16 frames.
C25_Witness ==
    /\ last.op = "CaptureStacktrace"
    /\ last.max = maxDepthAdaptive
    /\ last.depth - (last.skip + 2) = initialDepth
    /\ Len(last.ret.Frames) = initialDepth
    /\ last.ret.Frames[initialDepth] = last.skip + 2 + initialDepth

(***************************************************************************)
(* The frame of the builder mutators.                                      *)
(***************************************************************************)
\* The entries of the Context of the value at a in the heap h with maps c.
ContextIn(h, c, a) == IF h[a].Context = NilErr THEN EmptyMap ELSE c[h[a].Context]

\* What no mutator writes.
SameIdentity(old, new) ==
    /\ new.Code = old.Code
    /\ new.Message = old.Message
    /\ new.Field = old.Field
    /\ new.Value = old.Value
    /\ new.Timestamp = old.Timestamp
    /\ new.Cause = old.Cause
    /\ new.Stack = old.Stack

MutatorFrame ==
    last'.op \in Mutators =>
        LET e == last'.recv
            old == heap[e]
            new == heap'[e]
        IN  /\ last'.ret = e
            /\ DOMAIN heap' = DOMAIN heap
            /\ \A a \in DOMAIN heap \ {e} : heap'[a] = heap[a]
            /\ SameIdentity(old, new)
            /\ last'.op = "WithUserMessage" =>
                 /\ new = [old EXCEPT !.UserMsg = last'.msg]
                 /\ ctxs' = ctxs
            /\ last'.op = "AsRetryable" =>
                 /\ new = [old EXCEPT !.Retryable = TRUE]
                 /\ ctxs' = ctxs
            /\ last'.op = "WithSeverity" =>
                 /\ new = [old EXCEPT !.Severity = last'.severity]
                 /\ ctxs' = ctxs
            /\ last'.op = "WithContext" =>
                 /\ new = [old EXCEPT !.Context = new.Context]
                 /\ old.Context # NilErr => new.Context = old.Context
                 /\ ContextIn(heap', ctxs', e)[last'.key] = last'.value
                 /\ DOMAIN ContextIn(heap', ctxs', e) =
                       DOMAIN ContextIn(heap, ctxs, e) \cup {last'.key}
                 /\ \A k \in DOMAIN ContextIn(heap, ctxs, e) \ {last'.key} :
                       ContextIn(heap', ctxs', e)[k] =
                          ContextIn(heap, ctxs, e)[k]

\* C26: a mutator call returns its receiver and changes of it only its own
\* field: WithUserMessage the user message, WithContext the entry of the
\* given key in the context, AsRetryable the retryable flag, WithSeverity
\* and its three wrappers the severity.  Code, message, field, value,
\* timestamp, cause and stack stay as they were, and so does every other
\* value.
C26_MutatorsWriteOneField == [][MutatorFrame]_vars

\* WithContext has written a second key on a value that wraps an error,
\* carries a user message, a severity of its own and the retryable flag:
\* the first key, the cause and the stack are in place.
C26_Witness ==
    /\ last.op = "WithContext"
    /\ last.key = "k2"
    /\ heap[last.recv].Cause # NilErr
    /\ heap[last.recv].Stack # NilStack
    /\ heap[last.recv].UserMsg = "u"
    /\ heap[last.recv].Retryable
    /\ heap[last.recv].Severity = SeverityCritical
    /\ DOMAIN ContextOf(last.recv) = {"k", "k2"}

\* C27: on a chain whose foreign links have Unwrap and no Is method,
\* errors.Is(err, t) for an *Error t gives what HasCode(err, t.Code) gives,
\* for a nil err too, and does not panic.
C27_ErrorsIsAgreesWithHasCode ==
    (last.op = "errors.Is" /\ last.target \in ErrorAddrs) =>
        /\ ~last.panic
        /\ last.ret <=> HasCode(last.err, heap[last.target].Code)

\* errors.Is matched a target that is no link of the chain: the chain's
\* first link is foreign, and the *Error behind it has the target's code.
C27_Witness ==
    /\ last.op = "errors.Is"
    /\ last.target \in ErrorAddrs
    /\ last.err # NilErr
    /\ last.target \notin Links(last.err)
    /\ heap[last.err].kind = "Foreign"
    /\ ErrorsUnwrap(last.err) \in ErrorAddrs
    /\ heap[ErrorsUnwrap(last.err)].Code = heap[last.target].Code
    /\ last.ret

\* C28: on the non-nil *Error values Is is an equivalence relation: a.Is(a)
\* holds, a.Is(b) gives b.Is(a), a.Is(b) and b.Is(c) give a.Is(c), and no
\* call among them panics; it holds between distinct values, so it is
\* coarser than identity.
C28_IsIsAnEquivalence ==
    /\ \A a \in ErrorAddrs : Is(a, a).ret
    /\ \A a, b \in ErrorAddrs :
          /\ ~Is(a, b).panic
          /\ Is(a, b).ret => Is(b, a).ret
    /\ \A a, b, c \in ErrorAddrs :
          (Is(a, b).ret /\ Is(b, c).ret) => Is(a, c).ret
    /\ (last.op = "Is" /\ last.target \in ErrorAddrs) =>
          /\ last.ret = Is(last.target, last.recv).ret
          /\ last.target = last.recv => last.ret

\* Is gave true for two distinct values, one of them wrapping an error,
\* and a third value distinct from both matches both.
C28_Witness ==
    /\ last.op = "Is"
    /\ last.ret
    /\ last.target \in ErrorAddrs
    /\ last.target # last.recv
    /\ \E c \in ErrorAddrs \ {last.recv, last.target} :
          /\ Is(last.target, c).ret
          /\ Is(last.recv, c).ret
          /\ heap[c].Cause # NilErr

\* The code Wrap stores for the code it is given.
Normalize(code) == IF OnlyWhitespace(code) THEN DefaultErrorCode ELSE code

\* C29: for every error e, nil included, and all codes c and t,
\* HasCode(Wrap(e, c, m), t) is true exactly when t is c normalised or
\* HasCode(e, t) is true.  When c is empty or whitespace-only the wrapper's
\* own code is not c but UNKNOWN_ERROR: a search for UNKNOWN_ERROR matches
\* the wrapper, and a search for c matches only through e.
C29_HasCodeOfWrap ==
    last.op = "Wrap" =>
        /\ \A t \in CodeInputs \cup {DefaultErrorCode} :
              HasCode(last.ret, t) <=>
                 (Normalize(last.code) = t \/ HasCode(last.err, t))
        /\ OnlyWhitespace(last.code) =>
              /\ heap[last.ret].Code # last.code
              /\ HasCode(last.ret, DefaultErrorCode)
              /\ HasCode(last.ret, last.code) <=> HasCode(last.err, last.code)

\* Wrap was given a whitespace-only code and an error without that code:
\* HasCode finds UNKNOWN_ERROR on the result and does not find the code
\* given.
C29_Witness ==
    /\ last.op = "Wrap"
    /\ last.code = <<" ", "\t">>
    /\ last.err # NilErr
    /\ heap[last.err].Code = DefaultErrorCode
    /\ HasCode(last.ret, DefaultErrorCode)
    /\ ~HasCode(last.ret, last.code)

\* C30: nil inputs do not fail.  HasCode(nil, c) is false and
\* RootCause(nil) is nil; Wrap(nil, c, m) returns a non-nil *Error with a
\* nil Cause and a captured stack, whose Unwrap is nil, whose RootCause is
\* itself and whose As is false, without panic, for every target; the
\* helper calls made on such a value return the same.
C30_NilInputs ==
    /\ \A c \in ChainCodes : ~HasCode(NilErr, c)
    /\ RootCause(NilErr) = NilErr
    /\ (last.op = "HasCode" /\ last.err = NilErr) =>
          (~last.ret /\ ~last.panic)
    /\ (last.op = "RootCause" /\ last.err = NilErr) =>
          (last.ret = NilErr /\ ~last.panic)
    /\ (last.op = "Wrap" /\ last.err = NilErr) =>
          /\ last.ret # NilErr
          /\ ~last.panic
          /\ heap[last.ret].kind = "Error"
          /\ heap[last.ret].Cause = NilErr
          /\ heap[last.ret].Stack # NilStack
          /\ heap[last.ret].Stack = CaptureStacktrace(1, CallDepth)
          /\ Unwrap(last.ret) = NilErr
          /\ RootCause(last.ret) = last.ret
          /\ \A t \in Targets : As(last.ret, t) = AsOk(FALSE, NilErr)
    /\ (last.op = "Unwrap" /\ heap[last.recv].Cause = NilErr) =>
          last.ret = NilErr
    /\ (/\ last.op = "RootCause"
        /\ last.err \in ErrorAddrs
        /\ heap[last.err].Cause = NilErr) => last.ret = last.err
    /\ (last.op = "As" /\ heap[last.recv].Cause = NilErr) =>
          (~last.ret /\ ~last.panic)

\* Wrap(nil, c, m) has returned a value with a stack of frames and no
\* cause, on which As is false for the nil target and the *int target.
C30_Witness ==
    /\ last.op = "Wrap"
    /\ last.err = NilErr
    /\ last.ret # NilErr
    /\ heap[last.ret].Cause = NilErr
    /\ Len(heap[last.ret].Stack.Frames) > 0
    /\ As(last.ret, [kind |-> "nil"]) = AsOk(FALSE, NilErr)
    /\ As(last.ret, [kind |-> "ptr", elem |-> "int"]) = AsOk(FALSE, NilErr)

(***************************************************************************)
(* SpecLoop: the loops of RootCause and HasCode, one iteration a step, on  *)
(* chains the caller may have closed into a cycle by assigning the         *)
(* exported field Cause.  A run builds its values, then makes one call;    *)
(* procs holds the call: its argument, the loop variable err, the number   *)
(* of times err was moved to the next link, and what was returned (ret by  *)
(* RootCause, found by HasCode).                                           *)
(***************************************************************************)
Idle == procs = <<>>

\* e.Cause = x, written by the caller.
SetCause(e, x) ==
    /\ heap' = [heap EXCEPT ![e].Cause = x]
    /\ last' = [op |-> "SetCause", recv |-> e, err |-> x, panic |-> FALSE]
    /\ UNCHANGED <<ctxs, clock, inp, procs>>

Enter(fn, err, code) ==
    /\ procs' = <<[fn |-> fn, pc |-> "loop", arg |-> err, err |-> err,
                   code |-> code, steps |-> 0, ret |-> NilErr,
                   found |-> FALSE]>>
    /\ UNCHANGED <<heap, ctxs, clock, last, inp>>

RootCauseEnter(err) == Idle /\ Enter("RootCause", err, <<>>)

HasCodeEnter(err, code) == Idle /\ Enter("HasCode", err, code)

Running(fn) == ~Idle /\ procs[1].fn = fn /\ procs[1].pc = "loop"

\* The count of moves stops growing once it exceeds the number of values.
Moved(p) == IF p.steps > Len(heap) THEN p.steps ELSE p.steps + 1

Return(p, v) ==
    /\ procs' = IF p.fn = "RootCause"
                THEN <<[p EXCEPT !.pc = "done", !.ret = v]>>
                ELSE <<[p EXCEPT !.pc = "done", !.found = v]>>

\* RootCause with a cycle guard: the walk gives up once it has moved more
\* often than there are values.
RootCauseStepGuarded ==
    /\ Running("RootCause")
    /\ LET p == procs[1]
           unwrapped == ErrorsUnwrap(p.err)
       IN  IF unwrapped = NilErr \/ p.steps > Len(heap)
           THEN Return(p, p.err)
           ELSE /\ procs' = <<[p EXCEPT !.err = unwrapped,
                                        !.steps = Moved(p)]>>
    /\ UNCHANGED <<heap, ctxs, clock, last, inp>>

\* One iteration of `for { unwrapped := errors.Unwrap(err); ... }`.
RootCauseStep ==
    /\ Running("RootCause")
    /\ LET p == procs[1]
           unwrapped == ErrorsUnwrap(p.err)
       IN  IF unwrapped = NilErr
           THEN Return(p, p.err)
           ELSE /\ procs' = <<[p EXCEPT !.err = unwrapped,
                                        !.steps = Moved(p)]>>
    /\ UNCHANGED <<heap, ctxs, clock, last, inp>>

\* One iteration of `for err != nil { ... }`, or the return after it.
HasCodeStep ==
    /\ Running("HasCode")
    /\ LET p == procs[1]
       IN  IF p.err = NilErr
           THEN Return(p, FALSE)
           ELSE IF heap[p.err].kind = "Error" /\ heap[p.err].Code = p.code
           THEN Return(p, TRUE)
           ELSE /\ procs' = <<[p EXCEPT !.err = ErrorsUnwrap(p.err),
                                        !.steps = Moved(p)]>>
    /\ UNCHANGED <<heap, ctxs, clock, last, inp>>

\* A run links its values with the constructors, and the caller rewrites
\* at most one Cause, last.
Linking == Idle /\ last.op # "SetCause"

InitLoop ==
    /\ heap = <<>>
    /\ ctxs = <<>>
    /\ clock = 1
    /\ last = [op |-> "init", panic |-> FALSE]
    /\ inp = [code |-> <<"A">>, message |-> "m"]
    /\ procs = <<>>

NextLoop ==
    \/ Linking /\ New(inp.code, inp.message)
    \/ Linking /\ \E e \in ErrValues, c \in ChainCodes :
                      Wrap(e, c, inp.message, CallDepth)
    \/ Linking /\ FmtErrorfW(Len(heap))
    \/ Linking /\ \E e \in ErrorAddrs, x \in Addrs : SetCause(e, x)
    \/ \E e \in ErrValues : RootCauseEnter(e)
    \/ \E e \in ErrValues, c \in ChainCodes : HasCodeEnter(e, c)
    \/ RootCauseStep
    \/ HasCodeStep

SpecLoop == InitLoop /\ [][NextLoop]_vars

\* A call that has been entered keeps running: nothing but the loop's own
\* exit stops it.
FairLoop == SpecLoop /\ WF_vars(RootCauseStep) /\ WF_vars(HasCodeStep)

\* The links met from a within n moves.
RECURSIVE Reach(_, _)
Reach(a, n) ==
    IF a = NilErr \/ n = 0 THEN {}
    ELSE {a} \cup Reach(ErrorsUnwrap(a), n - 1)

\* The chain of the call's argument: whether it ends, its links, and
\* whether one of them is an *Error with the code looked for.
ArgEnds == WalkEnds(procs[1].arg, Len(heap))
ArgLinks == Reach(procs[1].arg, Len(heap))
ArgHasCode ==
    \E a \in ArgLinks : heap[a].kind = "Error" /\ heap[a].Code = procs[1].code

Returned == procs[1].pc = "done"

LoopSafe ==
    ~Idle =>
        /\ ArgEnds => procs[1].steps <= Cardinality(ArgLinks)
        /\ (Returned /\ ArgEnds /\ procs[1].fn = "RootCause") =>
              procs[1].ret = RootCause(procs[1].arg)
        /\ (Returned /\ ArgEnds /\ procs[1].fn = "HasCode") =>
              procs[1].found = HasCode(procs[1].arg, procs[1].code)
        /\ (procs[1].fn = "RootCause" /\ ~ArgEnds) => ~Returned
        /\ (procs[1].fn = "HasCode" /\ ~ArgEnds /\ ~ArgHasCode) => ~Returned
        /\ (procs[1].fn = "HasCode" /\ Returned) =>
              (procs[1].found <=> ArgHasCode)

\* C24: on a chain that ends, RootCause and HasCode return, having moved
\* along the chain at most as many times as it has links.  Neither guards
\* against a cycle: on a chain the caller closed into a cycle RootCause
\* never returns, and HasCode never returns when no link met carries the
\* code; it returns true when a link met, before the cycle or on it, does.
C24_LoopsEndOnlyOffCycles ==
    /\ []LoopSafe
    /\ (~Idle /\ ArgEnds) ~> (~Idle /\ Returned)
    /\ (~Idle /\ procs[1].fn = "HasCode" /\ ArgHasCode)
          ~> (~Idle /\ procs[1].fn = "HasCode" /\ Returned /\ procs[1].found)
    /\ (~Idle /\ ~ArgEnds /\ ~(procs[1].fn = "HasCode" /\ ArgHasCode))
          ~> (~Idle /\ ~Returned /\ procs[1].steps > Len(heap))

\* HasCode returned true on a chain closed into a cycle, having moved past
\* a link without the code.
C24_Witness ==
    /\ ~Idle
    /\ procs[1].fn = "HasCode"
    /\ ~ArgEnds
    /\ Returned
    /\ procs[1].found
    /\ procs[1].steps > 0

====
